---- MODULE Spec2Model ----
(***************************************************************************)
(* Model of backend/main.py: the /search handler (search_case_law), the    *)
(* cached CourtListener search (fetch_case_law) and the per-case           *)
(* summarizer (generate_ai_summary), together with the Redis store, the    *)
(* CourtListener search and opinion endpoints and the OpenAI endpoint as   *)
(* the environment.                                                        *)
(*                                                                         *)
(* The handler is "async def" but only calls blocking functions, so one    *)
(* server process runs one request at a time; pc is the position of that   *)
(* request, and every external call (Redis, HTTP, OpenAI) is one step      *)
(* whose outcome is chosen by the environment.                             *)
(*                                                                         *)
(* Encoding of Python values:                                              *)
(*   - an optional value (a dict key that may be absent, a Redis reply     *)
(*     that may be None) is a sequence: << >> is absent, <<v>> is v;       *)
(*   - a text is a sequence of tokens; the token " " is whitespace; a      *)
(*     fixed message of the program is a one-token text.                   *)
(***************************************************************************)
EXTENDS Integers, Sequences, FiniteSets, TLC

VARIABLES
    redis_client,       \* TRUE: a connected client; FALSE: None (line 35)
    OPENAI_API_KEY,     \* TRUE: the environment variable is set (line 19)
    hash_seed,          \* the per-process seed of Python's str hash
    redis,              \* the store: [case_law: query -> entry, ai_summary: hash -> entry]
    now,                \* wall-clock time in seconds
    ticks,              \* number of clock advances so far (bounds the model)
    pc,                 \* position of the request being handled
    query,              \* search_case_law: query
    raw_data,           \* search_case_law: raw_data (optional)
    index,              \* search_case_law: 1-based position in results
    formatted_results,  \* search_case_law: formatted_results
    opinion_id,         \* generate_ai_summary: opinion_id
    case_summary,       \* generate_ai_summary: case_summary
    summary,            \* generate_ai_summary: summary
    response,           \* the HTTP response of the request (optional)
    hits,               \* history: /search requests received per address in the current minute
    calls,              \* history: external calls made by the request being handled
    fetched,            \* history: per query, the data last fetched upstream and stored, with its expiry
    summarized,         \* history: per source text, the summary last stored for it, with its expiry
    prev,               \* history: the last return of fetch_case_law: query, data, time
    asked               \* history: source texts for which an LLM request has been issued

vars == <<redis_client, OPENAI_API_KEY, hash_seed, redis, now, ticks, pc,
          query, raw_data, index, formatted_results, opinion_id, case_summary,
          summary, response, hits, calls, fetched, summarized, prev, asked>>

---------------------------------------------------------------------------
(* Bounds of the model *)

MaxTicks == 1
MaxBurst == 2
MaxHits == 11
HashMod == 5

(* Constants of the program *)

SearchTTL == 600
SummaryTTL == 86400
RateLimit == 10

TickSteps == {60, 600, 86400}
Seeds == {0, 1}
Address1 == "10.0.0.1"
Address2 == "10.0.0.2"
Clients == {Address1, Address2}
Queries == {"", "miranda"}

---------------------------------------------------------------------------
(* Python values *)

None == << >>
Some(v) == <<v>>

In(key, obj) == obj[key] # None
Get(obj, key, default) == IF obj[key] = None THEN default ELSE obj[key][1]

Range(s) == {s[i] : i \in 1..Len(s)}

IsSpace(tok) == tok = " "

RECURSIVE LStrip(_)
LStrip(t) == IF t # << >> /\ IsSpace(Head(t)) THEN LStrip(Tail(t)) ELSE t

RECURSIVE RStrip(_)
RStrip(t) ==
    IF t # << >> /\ IsSpace(t[Len(t)]) THEN RStrip(SubSeq(t, 1, Len(t) - 1)) ELSE t

Strip(t) == RStrip(LStrip(t))

Code(tok) ==
    CASE tok = " " -> 1
      [] tok = "a" -> 2
      [] tok = "b" -> 3
      [] OTHER -> 4

\* the hash state h is carried over the tokens of t from left to right; the
\* text is folded by halves, with h evaluated first, so that a long text is
\* folded at logarithmic depth
RECURSIVE HashFrom(_, _)
HashFrom(h, t) ==
    IF t = << >> \/ h \notin Nat THEN h
    ELSE IF Len(t) = 1 THEN (h * 3 + Code(t[1]) + hash_seed) % HashMod
    ELSE LET m == Len(t) \div 2
         IN HashFrom(HashFrom(h, SubSeq(t, 1, m)), SubSeq(t, m + 1, Len(t)))

Hash(t) == HashFrom(hash_seed, t)

---------------------------------------------------------------------------
(* Messages of the program *)

MissingKeyMsg == <<"AI Analysis not available (missing API key).">>
NoOpinionIdMsg == <<"AI Summary Not Available (No opinion ID).">>
NoCaseTextMsg == <<"AI Summary Not Available (No case text found).">>
FetchFailedMsg == <<"AI Summary Not Available (Failed to fetch full case text).">>
NotAvailableMsg == <<"AI Summary Not Available.">>
ApiErrorMsg == <<"AI Analysis unavailable due to an API error.">>

Sentinels ==
    {MissingKeyMsg, NoOpinionIdMsg, NoCaseTextMsg, FetchFailedMsg, NotAvailableMsg,
     ApiErrorMsg}

---------------------------------------------------------------------------
(* What the external services may answer *)

CaseFields == <<"caseName", "citation", "summary", "id", "opinions", "cluster_id">>
DataFields == <<"error", "results">>

NoCase ==
    [caseName |-> None, citation |-> None, summary |-> None, id |-> None,
     opinions |-> None, cluster_id |-> None]

CaseA == [NoCase EXCEPT !.caseName = Some("Miranda v. Arizona"),
                        !.citation = Some(<<"384 U.S. 436">>),
                        !.summary = Some(<<"a">>),
                        !.id = Some(1),
                        !.cluster_id = Some(7)]

CaseB == [NoCase EXCEPT !.caseName = Some("Roe v. Wade"),
                        !.opinions = Some(<<[id |-> Some(2)]>>),
                        !.cluster_id = Some(8)]

CaseC == [NoCase EXCEPT !.citation = Some(<< >>)]

NoData == [error |-> None, results |-> None]

SearchResponses ==
    {[NoData EXCEPT !.results = Some(<<CaseA, CaseB>>)],
     [NoData EXCEPT !.results = Some(<<CaseC, CaseA>>)]}

OpinionTexts == {<<" ">>, <<" ", "a">>, <<"b">>}
LlmContents == {<<" ">>, <<"s", " ">>}

SourceTexts == {Strip(t) : t \in OpinionTexts} \ {<< >>}

---------------------------------------------------------------------------
(* json.dumps / json.loads: an object becomes the list of its present      *)
(* keys with their values, and is rebuilt from that list.                  *)

DumpsObj(obj, fields) ==
    SelectSeq([i \in 1..Len(fields) |-> <<fields[i], obj[fields[i]]>>],
              LAMBDA p : p[2] # None)

LoadsObj(pairs, fields) ==
    [f \in Range(fields) |->
        IF \E i \in 1..Len(pairs) : pairs[i][1] = f
        THEN (CHOOSE p \in Range(pairs) : p[1] = f)[2]
        ELSE None]

JsonDumps(data) ==
    DumpsObj([error |-> data.error,
              results |-> IF data.results = None THEN None
                          ELSE Some([i \in 1..Len(data.results[1]) |->
                                       DumpsObj(data.results[1][i], CaseFields)])],
             DataFields)

JsonLoads(text) ==
    LET obj == LoadsObj(text, DataFields)
    IN [error |-> obj["error"],
        results |-> IF obj["results"] = None THEN None
                    ELSE Some([i \in 1..Len(obj["results"][1]) |->
                                 LoadsObj(obj["results"][1][i], CaseFields)])]

---------------------------------------------------------------------------
(* The Redis store *)

HashVals == 0..(HashMod - 1)

EmptyStore == [case_law |-> [q \in Queries |-> None], ai_summary |-> [h \in HashVals |-> None]]

Live(entry, t) == entry # None /\ entry[1].exp > t

\* GET: the value, or None when the key is absent or expired
RedisGet(space, key) ==
    IF Live(redis[space][key], now) THEN Some(redis[space][key][1].val) ELSE None

\* SETEX key ttl value
RedisSetex(space, key, ttl, value) ==
    [redis EXCEPT ![space][key] = Some([val |-> value, exp |-> now + ttl])]

\* expiry: entries whose time has come are gone
Expire(store, t) ==
    [space \in DOMAIN store |->
        [k \in DOMAIN store[space] |->
            IF Live(store[space][k], t) THEN store[space][k] ELSE None]]

\* Python truthiness of a Redis reply (None and "" are falsy)
Truthy(reply) == reply # None /\ reply[1] # << >>

---------------------------------------------------------------------------
(* The request being handled *)

\* attempts: LLM requests issued by the generate_ai_summary call in progress
NoCalls ==
    [search |-> 0, opinion |-> 0, llm |-> 0, cache |-> 0, raised |-> 0, wfail |-> 0,
     attempts |-> 0]

ErrorData == [NoData EXCEPT !.error = Some("Failed to fetch case law data")]

\* line 184
FetchErrorResponse ==
    [status |-> 500, message |-> "Failed to fetch case law", results |-> << >>,
     unhandled |-> FALSE]

\* an exception that leaves the handler: the framework answers 500
UnhandledResponse ==
    [status |-> 500, message |-> "Internal Server Error", results |-> << >>,
     unhandled |-> TRUE]

\* line 202
OkResponse(results) ==
    [status |-> 200, message |-> "case(s) found", results |-> results, unhandled |-> FALSE]

\* line 186
Results == Get(raw_data[1], "results", << >>)

Init ==
    /\ redis_client \in BOOLEAN
    /\ OPENAI_API_KEY \in BOOLEAN
    /\ hash_seed \in Seeds
    /\ redis = EmptyStore
    /\ now = 0
    /\ ticks = 0
    /\ pc = "idle"
    /\ query = ""
    /\ raw_data = None
    /\ index = 0
    /\ formatted_results = << >>
    /\ opinion_id = None
    /\ case_summary = << >>
    /\ summary = << >>
    /\ response = None
    /\ hits = [c \in Clients |-> 0]
    /\ calls = NoCalls
    /\ fetched = [q \in Queries |-> None]
    /\ summarized = [t \in SourceTexts |-> None]
    /\ prev = None
    /\ asked = {}

config == <<redis_client, OPENAI_API_KEY, hash_seed>>
history == <<fetched, summarized, prev, asked>>
gen_locals == <<opinion_id, case_summary, summary>>

---------------------------------------------------------------------------
(* search_case_law, lines 177-202 *)

\* lines 191-194
Citation(case) ==
    LET citation == Get(case, "citation", << >>)
    IN IF citation # << >> THEN citation[1] ELSE "No Citation Available"

\* lines 192-196
Formatted(case, ai_summary) ==
    [CaseName |-> Get(case, "caseName", "Unknown Case"),
     Citation |-> Citation(case),
     AISummary |-> ai_summary]

\* a request arrives and the handler is entered: no limit is attached to the
\* route and the query is not examined (lines 177-180)
Receive(c, q) ==
    /\ pc \in {"idle", "responded"}
    /\ pc' = "fetch_get"
    /\ query' = q
    /\ hits' = [hits EXCEPT ![c] = @ + 1]
    /\ raw_data' = None
    /\ index' = 0
    /\ formatted_results' = << >>
    /\ opinion_id' = None
    /\ case_summary' = << >>
    /\ summary' = << >>
    /\ response' = None
    /\ calls' = NoCalls
    /\ UNCHANGED <<config, redis, now, ticks, history>>

\* an exception leaves the handler
Propagate ==
    /\ pc' = "responded"
    /\ response' = Some(UnhandledResponse)

\* generate_ai_summary returns ai_summary; the result is appended (lines 192-196)
GenReturn(ai_summary) ==
    /\ formatted_results' = Append(formatted_results, Formatted(Results[index], ai_summary))
    /\ index' = index + 1
    /\ pc' = "loop"
    /\ opinion_id' = None
    /\ case_summary' = << >>
    /\ summary' = << >>
    /\ response' = response

\* GenRaise without the try of line 190: the exception leaves the handler
GenRaiseAborts ==
    /\ formatted_results' = formatted_results
    /\ index' = index
    /\ opinion_id' = None
    /\ case_summary' = << >>
    /\ summary' = << >>
    /\ Propagate

\* generate_ai_summary raises; the loop logs it and goes on (lines 198-199)
GenRaise ==
    /\ formatted_results' = formatted_results
    /\ index' = index + 1
    /\ pc' = "loop"
    /\ opinion_id' = None
    /\ case_summary' = << >>
    /\ summary' = << >>
    /\ response' = response

---------------------------------------------------------------------------
(* fetch_case_law, lines 54-83 *)

\* history: fetch_case_law(query) returns data now
Returned(data) == Some([query |-> query, data |-> data, at |-> now])

\* lines 59-65: the cache is consulted only when there is a client
FetchCacheLookup ==
    /\ pc = "fetch_get"
    /\ IF redis_client
       THEN LET cached_data == RedisGet("case_law", query)
            IN /\ calls' = [calls EXCEPT !.cache = @ + 1]
               /\ IF Truthy(cached_data)
                  THEN /\ raw_data' = Some(JsonLoads(cached_data[1]))
                       /\ prev' = Returned(JsonLoads(cached_data[1]))
                       /\ pc' = "route"
                  ELSE /\ raw_data' = raw_data
                       /\ prev' = prev
                       /\ pc' = "fetch_http"
       ELSE /\ calls' = calls
            /\ raw_data' = raw_data
            /\ prev' = prev
            /\ pc' = "fetch_http"
    /\ UNCHANGED <<config, redis, now, ticks, query, index, formatted_results,
                   gen_locals, response, hits, fetched, summarized, asked>>

\* line 60: the GET raises (connection lost); nothing catches it
FetchCacheLookupRaises ==
    /\ pc = "fetch_get"
    /\ redis_client
    /\ calls' = [calls EXCEPT !.cache = @ + 1]
    /\ Propagate
    /\ UNCHANGED <<config, redis, now, ticks, query, raw_data, index,
                   formatted_results, gen_locals, hits, history>>

\* lines 69-71 succeed with data
FetchUpstreamOk(data) ==
    /\ pc = "fetch_http"
    /\ calls' = [calls EXCEPT !.search = @ + 1]
    /\ raw_data' = Some(data)
    /\ pc' = IF redis_client THEN "fetch_setex" ELSE "route"
    /\ prev' = IF redis_client THEN prev ELSE Returned(data)
    /\ UNCHANGED <<config, redis, now, ticks, query, index, formatted_results,
                   gen_locals, response, hits, fetched, summarized, asked>>

\* FetchUpstreamFail with the error result written to the cache
FetchUpstreamFailStoresError ==
    /\ pc = "fetch_http"
    /\ calls' = [calls EXCEPT !.search = @ + 1]
    /\ raw_data' = Some(ErrorData)
    /\ prev' = Returned(ErrorData)
    /\ redis' = IF redis_client
                THEN RedisSetex("case_law", query, SearchTTL, JsonDumps(ErrorData))
                ELSE redis
    /\ pc' = "route"
    /\ UNCHANGED <<config, now, ticks, query, index, formatted_results,
                   gen_locals, response, hits, fetched, summarized, asked>>

\* lines 69-71 raise RequestException (network error, non-2xx): lines 81-83
FetchUpstreamFail ==
    /\ pc = "fetch_http"
    /\ calls' = [calls EXCEPT !.search = @ + 1]
    /\ raw_data' = Some(ErrorData)
    /\ prev' = Returned(ErrorData)
    /\ pc' = "route"
    /\ UNCHANGED <<config, redis, now, ticks, query, index, formatted_results,
                   gen_locals, response, hits, fetched, summarized, asked>>

\* FetchStore with the expiry given as 0 seconds
FetchStoreNoTtl ==
    /\ pc = "fetch_setex"
    /\ redis' = RedisSetex("case_law", query, 0, JsonDumps(raw_data[1]))
    /\ fetched' = [fetched EXCEPT ![query] = Some([data |-> raw_data[1], exp |-> now + SearchTTL])]
    /\ prev' = Returned(raw_data[1])
    /\ calls' = [calls EXCEPT !.cache = @ + 1]
    /\ pc' = "route"
    /\ UNCHANGED <<config, now, ticks, query, raw_data, index, formatted_results,
                   gen_locals, response, hits, summarized, asked>>

\* lines 77-80
FetchStore ==
    /\ pc = "fetch_setex"
    /\ redis' = RedisSetex("case_law", query, SearchTTL, JsonDumps(raw_data[1]))
    /\ fetched' = [fetched EXCEPT ![query] = Some([data |-> raw_data[1], exp |-> now + SearchTTL])]
    /\ prev' = Returned(raw_data[1])
    /\ calls' = [calls EXCEPT !.cache = @ + 1]
    /\ pc' = "route"
    /\ UNCHANGED <<config, now, ticks, query, raw_data, index, formatted_results,
                   gen_locals, response, hits, summarized, asked>>

\* line 78: the SETEX raises; it is no RequestException, so line 81 lets it pass
FetchStoreRaises ==
    /\ pc = "fetch_setex"
    /\ calls' = [calls EXCEPT !.cache = @ + 1, !.wfail = @ + 1]
    /\ Propagate
    /\ UNCHANGED <<config, redis, now, ticks, query, raw_data, index,
                   formatted_results, gen_locals, hits, history>>

\* Route without the test of line 182
RouteIgnoresError ==
    /\ pc = "route"
    /\ response' = response
    /\ pc' = "loop"
    /\ index' = 1
    /\ UNCHANGED <<config, redis, now, ticks, query, raw_data, formatted_results,
                   gen_locals, hits, calls, history>>

\* lines 182-186
Route ==
    /\ pc = "route"
    /\ IF In("error", raw_data[1])
       THEN /\ response' = Some(FetchErrorResponse)
            /\ pc' = "responded"
            /\ index' = index
       ELSE /\ response' = response
            /\ pc' = "loop"
            /\ index' = 1
    /\ UNCHANGED <<config, redis, now, ticks, query, raw_data, formatted_results,
                   gen_locals, hits, calls, history>>

\* line 202
Respond ==
    /\ pc = "loop"
    /\ index > Len(Results)
    /\ response' = Some(OkResponse(formatted_results))
    /\ pc' = "responded"
    /\ UNCHANGED <<config, redis, now, ticks, query, raw_data, index,
                   formatted_results, gen_locals, hits, calls, history>>

---------------------------------------------------------------------------
(* generate_ai_summary, lines 86-174 *)

\* ResolveOpinionId with the cluster_id tried before the opinions list
ResolveOpinionIdClusterFirst(case) ==
    LET direct == Get(case, "id", 0)
        opinions == Get(case, "opinions", << >>)
        first == IF direct # 0 THEN direct ELSE Get(case, "cluster_id", 0)
    IN IF first # 0 THEN first
       ELSE IF opinions # << >> THEN Get(opinions[1], "id", 0)
       ELSE 0

\* lines 100-112: 0 stands for "no identifier" (None and 0 are both falsy)
ResolveOpinionId(case) ==
    LET direct == Get(case, "id", 0)
        opinions == Get(case, "opinions", << >>)
        first == IF direct # 0 THEN direct
                 ELSE IF opinions # << >> THEN Get(opinions[1], "id", 0)
                 ELSE 0
    IN IF first # 0 THEN first ELSE Get(case, "cluster_id", 0)

\* LoopStep without the test of line 89
LoopStepNoKeyCheck ==
    /\ pc = "loop"
    /\ index <= Len(Results)
    /\ LET case == Results[index]
       IN IF ResolveOpinionId(case) = 0
          THEN GenReturn(NoOpinionIdMsg)
          ELSE /\ pc' = "gen_opinion"
               /\ opinion_id' = Some(ResolveOpinionId(case))
               /\ case_summary' = Strip(Get(case, "summary", << >>))
               /\ UNCHANGED <<index, formatted_results, summary, response>>
    /\ calls' = [calls EXCEPT !.attempts = 0]
    /\ UNCHANGED <<config, redis, now, ticks, query, raw_data, hits, history>>

\* lines 189-195 and 89-120: the next case enters generate_ai_summary, up to the opinion request
LoopStep ==
    /\ pc = "loop"
    /\ index <= Len(Results)
    /\ LET case == Results[index]
       IN IF ~OPENAI_API_KEY
          THEN GenReturn(MissingKeyMsg)
          ELSE IF ResolveOpinionId(case) = 0
          THEN GenReturn(NoOpinionIdMsg)
          ELSE /\ pc' = "gen_opinion"
               /\ opinion_id' = Some(ResolveOpinionId(case))
               /\ case_summary' = Strip(Get(case, "summary", << >>))
               /\ UNCHANGED <<index, formatted_results, summary, response>>
    /\ calls' = [calls EXCEPT !.attempts = 0]
    /\ UNCHANGED <<config, redis, now, ticks, query, raw_data, hits, history>>

\* OpinionOk without the test of line 129
OpinionOkNoEmptyCheck(plain_text) ==
    /\ pc = "gen_opinion"
    /\ calls' = [calls EXCEPT !.opinion = @ + 1]
    /\ pc' = "gen_cache_get"
    /\ case_summary' = Strip(plain_text)
    /\ UNCHANGED <<index, formatted_results, opinion_id, summary, response>>
    /\ UNCHANGED <<config, redis, now, ticks, query, raw_data, hits, history>>

\* lines 123-131: the opinion endpoint answers with plain_text
OpinionOk(plain_text) ==
    /\ pc = "gen_opinion"
    /\ calls' = [calls EXCEPT !.opinion = @ + 1]
    /\ IF Strip(plain_text) = << >>
       THEN GenReturn(NoCaseTextMsg)
       ELSE /\ pc' = "gen_cache_get"
            /\ case_summary' = Strip(plain_text)
            /\ UNCHANGED <<index, formatted_results, opinion_id, summary, response>>
    /\ UNCHANGED <<config, redis, now, ticks, query, raw_data, hits, history>>

\* lines 133-135
OpinionFail ==
    /\ pc = "gen_opinion"
    /\ calls' = [calls EXCEPT !.opinion = @ + 1]
    /\ GenReturn(FetchFailedMsg)
    /\ UNCHANGED <<config, redis, now, ticks, query, raw_data, hits, history>>

\* lines 141-148: redis_client is used without a check; on None the call raises
SummaryCacheLookup ==
    /\ pc = "gen_cache_get"
    /\ IF ~redis_client
       THEN /\ calls' = [calls EXCEPT !.raised = @ + 1]
            /\ GenRaise
       ELSE LET cached_summary == RedisGet("ai_summary", Hash(case_summary))
            IN /\ calls' = [calls EXCEPT !.cache = @ + 1]
               /\ IF Truthy(cached_summary)
                  THEN GenReturn(cached_summary[1])
                  ELSE /\ pc' = "gen_llm"
                       /\ UNCHANGED <<index, formatted_results, gen_locals, response>>
    /\ UNCHANGED <<config, redis, now, ticks, query, raw_data, hits, history>>

\* line 142: the GET raises (connection lost), outside the try of line 150
SummaryCacheLookupRaises ==
    /\ pc = "gen_cache_get"
    /\ redis_client
    /\ calls' = [calls EXCEPT !.cache = @ + 1, !.raised = @ + 1]
    /\ GenRaise
    /\ UNCHANGED <<config, redis, now, ticks, query, raw_data, hits, history>>

\* LlmOk without the test of line 165
LlmOkNoEmptyCheck(content) ==
    /\ pc = "gen_llm"
    /\ calls' = [calls EXCEPT !.llm = @ + 1, !.attempts = @ + 1]
    /\ asked' = asked \cup {case_summary}
    /\ pc' = "gen_setex"
    /\ summary' = Strip(content)
    /\ UNCHANGED <<index, formatted_results, opinion_id, case_summary, response>>
    /\ UNCHANGED <<config, redis, now, ticks, query, raw_data, hits, fetched,
                   summarized, prev>>

\* lines 151-167: the completion arrives with content
LlmOk(content) ==
    /\ pc = "gen_llm"
    /\ calls' = [calls EXCEPT !.llm = @ + 1, !.attempts = @ + 1]
    /\ asked' = asked \cup {case_summary}
    /\ IF Strip(content) = << >>
       THEN GenReturn(NotAvailableMsg)
       ELSE /\ pc' = "gen_setex"
            /\ summary' = Strip(content)
            /\ UNCHANGED <<index, formatted_results, opinion_id, case_summary, response>>
    /\ UNCHANGED <<config, redis, now, ticks, query, raw_data, hits, fetched,
                   summarized, prev>>

\* lines 153-161 raise (authentication, timeout, malformed response): lines 172-174
LlmFail ==
    /\ pc = "gen_llm"
    /\ calls' = [calls EXCEPT !.llm = @ + 1, !.attempts = @ + 1]
    /\ asked' = asked \cup {case_summary}
    /\ GenReturn(ApiErrorMsg)
    /\ UNCHANGED <<config, redis, now, ticks, query, raw_data, hits, fetched,
                   summarized, prev>>

\* history: the summary of source text t is stored now, under key hash(t)
Stored(t, value) ==
    [x \in DOMAIN summarized |->
        IF x = t THEN Some([val |-> value, exp |-> now + SummaryTTL, key |-> Hash(t)])
        ELSE summarized[x]]

\* SummaryStore with the key computed from the summary instead of the source text
SummaryStoreOtherKey ==
    /\ pc = "gen_setex"
    /\ redis' = RedisSetex("ai_summary", Hash(summary), SummaryTTL, summary)
    /\ summarized' = Stored(case_summary, summary)
    /\ calls' = [calls EXCEPT !.cache = @ + 1]
    /\ GenReturn(summary)
    /\ UNCHANGED <<config, now, ticks, query, raw_data, hits, fetched, prev, asked>>

\* lines 169-170
SummaryStore ==
    /\ pc = "gen_setex"
    /\ redis' = RedisSetex("ai_summary", Hash(case_summary), SummaryTTL, summary)
    /\ summarized' = Stored(case_summary, summary)
    /\ calls' = [calls EXCEPT !.cache = @ + 1]
    /\ GenReturn(summary)
    /\ UNCHANGED <<config, now, ticks, query, raw_data, hits, fetched, prev, asked>>

\* line 169 raises inside the try: lines 172-174 answer with the API-error message
SummaryStoreRaises ==
    /\ pc = "gen_setex"
    /\ calls' = [calls EXCEPT !.cache = @ + 1, !.wfail = @ + 1]
    /\ GenReturn(ApiErrorMsg)
    /\ UNCHANGED <<config, redis, now, ticks, query, raw_data, hits, history>>

---------------------------------------------------------------------------
(* Time passes between two requests: d seconds; a new minute starts and     *)
(* expired entries are gone.                                               *)

Tick(d) ==
    /\ ticks < MaxTicks
    /\ pc \in {"idle", "responded"}
    /\ ticks' = ticks + 1
    /\ now' = now + d
    /\ redis' = Expire(redis, now + d)
    /\ hits' = [c \in Clients |-> 0]
    /\ fetched' = [q \in Queries |-> IF Live(fetched[q], now + d) THEN fetched[q] ELSE None]
    /\ summarized' = [t \in SourceTexts |->
                         IF Live(summarized[t], now + d) THEN summarized[t] ELSE None]
    /\ prev' = IF prev # None /\ now + d < prev[1].at + SearchTTL THEN prev ELSE None
    /\ UNCHANGED <<config, pc, query, raw_data, index, formatted_results,
                   gen_locals, response, calls, asked>>

Next ==
    \/ \E q \in Queries : hits[Address1] < MaxBurst /\ Receive(Address1, q)
    \/ FetchCacheLookup
    \/ FetchCacheLookupRaises
    \/ \E data \in SearchResponses : FetchUpstreamOk(data)
    \/ FetchUpstreamFail
    \/ FetchStore
    \/ FetchStoreRaises
    \/ Route
    \/ Respond
    \/ LoopStep
    \/ \E plain_text \in OpinionTexts : OpinionOk(plain_text)
    \/ OpinionFail
    \/ SummaryCacheLookup
    \/ SummaryCacheLookupRaises
    \/ \E content \in LlmContents : LlmOk(content)
    \/ LlmFail
    \/ SummaryStore
    \/ SummaryStoreRaises
    \/ \E d \in TickSteps : Tick(d)

Spec == Init /\ [][Next]_vars

---------------------------------------------------------------------------
(* The same server under a burst of requests for one query from two        *)
(* addresses within one minute, with an empty store of cases upstream.     *)

EmptyResults == [NoData EXCEPT !.results = Some(<< >>)]

NextRate ==
    \/ \E c \in Clients : hits[c] < MaxHits /\ Receive(c, "miranda")
    \/ FetchCacheLookup
    \/ FetchUpstreamOk(EmptyResults)
    \/ FetchUpstreamFail
    \/ FetchStore
    \/ Route
    \/ Respond

SpecRate == Init /\ [][NextRate]_vars

---------------------------------------------------------------------------
(* The server process is started again between two requests (or a second   *)
(* process of the same deployment takes over): the interpreter draws a new *)
(* seed for the hash of strings; the Redis store lives on.                 *)

Restart ==
    /\ pc \in {"idle", "responded"}
    /\ hash_seed' \in Seeds
    /\ pc' = "idle"
    /\ query' = ""
    /\ raw_data' = None
    /\ index' = 0
    /\ formatted_results' = << >>
    /\ opinion_id' = None
    /\ case_summary' = << >>
    /\ summary' = << >>
    /\ response' = None
    /\ calls' = NoCalls
    /\ UNCHANGED <<redis_client, OPENAI_API_KEY, redis, now, ticks, hits, history>>

NextProcs ==
    \/ Restart
    \/ hits[Address1] < MaxBurst /\ Receive(Address1, "miranda")
    \/ FetchCacheLookup
    \/ \E data \in SearchResponses : FetchUpstreamOk(data)
    \/ FetchStore
    \/ Route
    \/ Respond
    \/ LoopStep
    \/ \E plain_text \in OpinionTexts : OpinionOk(plain_text)
    \/ SummaryCacheLookup
    \/ \E content \in LlmContents : LlmOk(content)
    \/ SummaryStore

SpecProcs == Init /\ [][NextProcs]_vars

---------------------------------------------------------------------------
(* One request whose search result and opinion texts are drawn from a      *)
(* wider set: cases with every combination of identifiers, and an opinion  *)
(* text longer than 2000 tokens.                                           *)

CaseD == [NoCase EXCEPT !.cluster_id = Some(3)]

CaseE == [NoCase EXCEPT !.summary = Some(<<" ">>),
                        !.opinions = Some(<<[id |-> None]>>),
                        !.cluster_id = Some(9)]

CaseF == [NoCase EXCEPT !.id = Some(0),
                        !.opinions = Some(<<[id |-> Some(4)], [id |-> Some(5)]>>)]

CaseResponses ==
    {[NoData EXCEPT !.results = Some(<<CaseA, CaseD>>)],
     [NoData EXCEPT !.results = Some(<<CaseE, CaseB>>)],
     [NoData EXCEPT !.results = Some(<<CaseC, CaseF>>)]}

LongText == [i \in 1..2001 |-> "a"]

CaseOpinionTexts == OpinionTexts \cup {LongText}

NextCases ==
    \/ pc = "idle" /\ Receive(Address1, "miranda")
    \/ FetchCacheLookup
    \/ \E data \in CaseResponses : FetchUpstreamOk(data)
    \/ FetchStore
    \/ Route
    \/ Respond
    \/ LoopStep
    \/ \E plain_text \in CaseOpinionTexts : OpinionOk(plain_text)
    \/ OpinionFail
    \/ SummaryCacheLookup
    \/ \E content \in LlmContents : LlmOk(content)
    \/ LlmFail
    \/ SummaryStore

SpecCases == Init /\ [][NextCases]_vars

---------------------------------------------------------------------------
(* Properties *)

Last(seq) == seq[Len(seq)]

\* the loop of line 189 has been entered: fetch_case_law returned search data
InLoop == index >= 1

\* C1, as stated: whenever fetch_case_law returns for a query less than 600
\* seconds after its previous return for the same query, it has issued no
\* upstream search request and returns the data of that previous return.
C1_SearchIdempotence ==
    [][(/\ pc # "route" /\ pc' = "route"
        /\ prev # None
        /\ prev[1].query = query
        /\ now < prev[1].at + SearchTTL)
       => (calls'.search = 0 /\ raw_data' = Some(prev[1].data))]_vars

\* C1, amended: when a call has fetched data upstream and stored it under
\* case_law:<query>, every call for that query whose cache lookup is answered
\* less than 600 seconds after that store returns the same data and issues no
\* upstream search request.
C1_SearchIdempotenceOnceStored ==
    [][(/\ pc = "fetch_get" /\ pc' \notin {"fetch_get", "responded"}
        /\ Live(fetched[query], now))
       => (/\ pc' = "route"
           /\ calls'.search = 0
           /\ raw_data' = Some(fetched[query][1].data))]_vars

\* C1 witness: a later minute, inside the window: the call was served from the cache
C1_Witness ==
    /\ pc = "route"
    /\ now > 0
    /\ Live(fetched[query], now)
    /\ calls.search = 0
    /\ calls.cache = 1

\* C2, as stated: an LLM request is issued for a source text only if none was
\* issued for that text before.
C2_AtMostOneLlmCall ==
    [][(calls'.llm = calls.llm + 1) => case_summary \notin asked]_vars

\* C2, amended: once a summary of a source text has been obtained from the LLM
\* and stored, then for 24 hours no LLM request is issued for that text, and
\* every call for that text whose cache lookup is answered returns the stored
\* summary.
C2_NoLlmCallOnceStored ==
    [][/\ (calls'.llm = calls.llm + 1) => ~Live(summarized[case_summary], now)
       /\ (/\ pc = "gen_cache_get"
           /\ Live(summarized[case_summary], now)
           /\ calls'.raised = calls.raised)
          => (/\ pc' = "loop"
              /\ calls'.llm = calls.llm
              /\ Last(formatted_results').AISummary = summarized[case_summary][1].val)]_vars

\* C2 witness: a request of a later minute got a summary without any LLM request
C2_Witness ==
    /\ pc = "loop"
    /\ now > 0
    /\ calls.llm = 0
    /\ formatted_results # << >>
    /\ Last(formatted_results).AISummary \notin Sentinels

\* C3, as stated: a request with a blank query is answered 400 and makes no
\* search request, opinion request, LLM request or cache access.
C3_BlankQueryRejected ==
    (pc # "idle" /\ query = "")
    => (/\ pc = "responded"
        /\ response[1].status = 400
        /\ calls = NoCalls)

\* C4: when the upstream search call fails, no case is processed, no opinion
\* request and no LLM request is made, and the response is the handler's own
\* 500 with an empty results list.
C4_UpstreamFailureAborts ==
    (raw_data = Some(ErrorData))
    => (/\ pc \in {"route", "responded"}
        /\ ~InLoop
        /\ formatted_results = << >>
        /\ calls.opinion = 0
        /\ calls.llm = 0
        /\ pc = "responded" => response = Some(FetchErrorResponse))

\* C4 witness: the request ended after a failed upstream call, with summaries enabled
C4_Witness ==
    /\ pc = "responded"
    /\ raw_data = Some(ErrorData)
    /\ calls.search = 1
    /\ OPENAI_API_KEY
    /\ redis_client

\* C5, as stated: no address has more than 10 requests enter the handler
\* within one minute.
C5_RateLimited ==
    \A c \in Clients : hits[c] <= RateLimit

\* C6: without the API key, once fetch_case_law has returned search data, no
\* LLM request is issued, every result carries the missing-key message, and
\* the response is 200 with one result per case.
C6_MissingKey ==
    (~OPENAI_API_KEY /\ InLoop)
    => (/\ calls.llm = 0
        /\ \A i \in 1..Len(formatted_results) :
              formatted_results[i].AISummary = MissingKeyMsg
        /\ pc = "responded"
           => (/\ response[1].status = 200
               /\ response[1].results = formatted_results
               /\ Len(formatted_results) = Len(Results)))

\* C6 witness: a response with two results, no API key
C6_Witness ==
    /\ ~OPENAI_API_KEY
    /\ pc = "responded"
    /\ InLoop
    /\ Len(response[1].results) = 2

\* C7: once the loop over the cases is entered, every case is processed
\* whatever happens to the others, and the request ends with the handler's
\* 200 response holding one result per case that did not raise.
C7_PerCaseIsolation ==
    InLoop
    => (/\ pc \in {"loop", "gen_opinion", "gen_cache_get", "gen_llm", "gen_setex", "responded"}
        /\ Len(formatted_results) + calls.raised = index - 1
        /\ pc = "responded"
           => (/\ index = Len(Results) + 1
               /\ response = Some(OkResponse(formatted_results))))

\* C7 witness: the summarization of one case raised, another case got its summary
C7_Witness ==
    /\ pc = "responded"
    /\ InLoop
    /\ calls.raised >= 1
    /\ \E i \in 1..Len(response[1].results) :
          response[1].results[i].AISummary \notin Sentinels

\* C8, as stated: generate_ai_summary never raises.
C8_SummarizerNeverRaises ==
    calls.raised = 0

\* C9, as stated: with redis_client = None, a request whose search returned
\* data ends 200 with one result per case, without any exception and without
\* any cache command.
C9_CacheDisabledMode ==
    (~redis_client /\ pc = "responded" /\ InLoop)
    => (/\ response[1].status = 200
        /\ Len(response[1].results) = Len(Results)
        /\ calls.raised = 0
        /\ calls.cache = 0)

\* C10, as stated: when a cache write fails, the request goes on with the
\* data just fetched (search) or returns the summary just generated.
C10_BestEffortCacheWrites ==
    [][(calls'.wfail = calls.wfail + 1)
       => (/\ pc = "fetch_setex" => (pc' = "route" /\ raw_data' = raw_data)
           /\ pc = "gen_setex"
              => (pc' = "loop" /\ Last(formatted_results').AISummary = summary))]_vars

\* the six fields of a normalized case, under the names the response would use
NormalizedFields ==
    {"CaseName", "Citation", "Court", "DateDecided", "Summary", "FullCaseUrl"}

\* C11, as stated: every result emitted by the pipeline has all six
\* normalized fields (case name, citation, court, date decided, summary, full
\* case URL), each a non-empty string.
C11_SixFieldsPresent ==
    \A i \in 1..Len(formatted_results) :
        /\ NormalizedFields \subseteq DOMAIN formatted_results[i]
        /\ formatted_results[i].CaseName # ""
        /\ formatted_results[i].Citation # ""

\* C12, as stated: while the request being handled is suspended in a call to
\* the search API, the opinion API or the LLM API, another request can enter
\* the handler.
C12_OthersProgressDuringCalls ==
    (pc \in {"fetch_http", "gen_opinion", "gen_llm"})
    => ENABLED Receive(Address1, "miranda")

\* C13, as stated: whenever a summary is looked up for a source text whose
\* summary was stored before (by this or by another process), the key
\* computed for the text is the key it was stored under.
C13_SameTextSameKey ==
    (pc = "gen_cache_get" /\ case_summary \in DOMAIN summarized
       /\ summarized[case_summary] # None)
    => Hash(case_summary) = summarized[case_summary][1].key

\* C14, as stated: the summarizer gives up on empty LLM output, returning the
\* not-available message, only when three LLM requests have been issued for
\* the case.
C14_RetryOnEmptyOutput ==
    [][(/\ pc = "gen_llm" /\ pc' = "loop"
        /\ Len(formatted_results') = Len(formatted_results) + 1
        /\ Last(formatted_results').AISummary = NotAvailableMsg)
       => calls'.attempts = 3]_vars

\* C15: the full opinion text is requested only for a case whose own summary
\* field is empty; a case with a summary is summarized from that field and
\* no opinion request is made for it.
C15_OpinionOnlyWhenSummaryEmpty ==
    pc = "gen_opinion" => Strip(Get(Results[index], "summary", << >>)) = << >>

\* The order of C16 stated on its own: the first non-empty of the case's id,
\* the id of its first opinion, and its cluster_id (0 when there is none).
FirstPresentId(case) ==
    LET opinions == Get(case, "opinions", << >>)
        candidates == <<Get(case, "id", 0),
                        IF opinions = << >> THEN 0 ELSE Get(opinions[1], "id", 0),
                        Get(case, "cluster_id", 0)>>
        present == SelectSeq(candidates, LAMBDA x : x # 0)
    IN IF present = << >> THEN 0 ELSE present[1]

\* C16: with an API key, the step that takes up a case goes on to the opinion
\* request with the first present identifier in the order id, first opinion's
\* id, cluster_id; a case with no identifier gets a "not available" message
\* at once, with no opinion request, no cache read and no LLM call.
C16_IdResolutionOrder ==
    [][(pc = "loop" /\ index <= Len(Results))
       => LET first == FirstPresentId(Results[index])
          IN IF OPENAI_API_KEY /\ first # 0
             THEN /\ pc' = "gen_opinion"
                  /\ index' = index
                  /\ opinion_id' = Some(first)
             ELSE /\ pc' = "loop"
                  /\ index' = index + 1
                  /\ Last(formatted_results').AISummary
                         = (IF OPENAI_API_KEY THEN NoOpinionIdMsg ELSE MissingKeyMsg)
                  /\ calls'.opinion = calls.opinion
                  /\ calls'.cache = calls.cache
                  /\ calls'.llm = calls.llm]_vars

\* C16 witness: the opinion request is about to go out with the id of the
\* first opinion, for a case that has no id of its own but has a cluster_id.
C16_Witness ==
    /\ pc = "gen_opinion"
    /\ Get(Results[index], "id", 0) = 0
    /\ Get(Results[index], "cluster_id", 0) # 0
    /\ opinion_id # Some(Get(Results[index], "cluster_id", 0))

\* C17: the cache read, the LLM call and the cache write only ever see a
\* source text that is not blank; when the opinion request ends without such
\* a text the case gets a "not available" message and neither the summary
\* cache nor the LLM is consulted.
C17_NoEmptySourceText ==
    [][/\ pc' \in {"gen_cache_get", "gen_llm", "gen_setex"} => Strip(case_summary') # << >>
       /\ (pc = "gen_opinion" /\ pc' = "loop")
          => /\ Last(formatted_results').AISummary \in {NoCaseTextMsg, FetchFailedMsg}
             /\ calls'.cache = calls.cache
             /\ calls'.llm = calls.llm]_vars

\* C17 witness: a case whose opinion text was blank has been answered with
\* the "no case text" message, without a cache read or an LLM call.
C17_Witness ==
    /\ pc = "loop"
    /\ formatted_results # << >>
    /\ Last(formatted_results).AISummary = NoCaseTextMsg
    /\ calls.opinion = 1
    /\ calls.cache = 0
    /\ calls.llm = 0

\* C18: the text handed to the cache key and to the LLM is at most the first
\* 2000 characters of the opinion text.
C18_TextTruncated ==
    pc \in {"gen_cache_get", "gen_llm", "gen_setex"} => Len(case_summary) <= 2000

\* C19: every value held under an ai_summary key is a non-empty text that a
\* successful LLM call returned (stripped); none of the program's
\* "not available" messages is ever in the summary cache.
C19_OnlyLlmSummariesCached ==
    \A h \in HashVals :
        redis.ai_summary[h] # None
        => /\ redis.ai_summary[h][1].val # << >>
           /\ redis.ai_summary[h][1].val \in {Strip(content) : content \in LlmContents}
           /\ redis.ai_summary[h][1].val \notin Sentinels

\* C19 witness: a summary is in the cache and a later case of the same
\* request got the empty-output message, which was not stored.
C19_Witness ==
    /\ \E h \in HashVals : redis.ai_summary[h] # None
    /\ pc = "loop"
    /\ formatted_results # << >>
    /\ Last(formatted_results).AISummary = NotAvailableMsg

\* C20: a failed upstream search leaves the cache as it was, and the next
\* search for the same query is not answered from the cache with the error.
C20_FailureNotCached ==
    [][/\ (pc = "fetch_http" /\ raw_data' = Some(ErrorData)) => redis' = redis
       /\ (/\ pc = "fetch_get"
           /\ prev # None
           /\ prev[1].query = query
           /\ prev[1].data = ErrorData)
          => (pc' # "route" /\ raw_data' # Some(ErrorData))]_vars

\* C20 witness: with the cache in use, the search that follows a failed one
\* for the same query is waiting on the upstream request.
C20_Witness ==
    /\ pc = "fetch_http"
    /\ redis_client
    /\ prev # None
    /\ prev[1].query = query
    /\ prev[1].data = ErrorData

====
